---- MODULE Spec2Model ----
(***************************************************************************)
(* NoiseBuilder (src/noise.rs): the fluent configuration calls, the        *)
(* private-key generation helper and build(initiator), together with the   *)
(* CryptoResolver they consult.  Byte strings are sequences of 0..255.     *)
(* A build is one step; the resolver lookups and Dh.set calls it makes are *)
(* recorded, in order, in `lookups` and `installed`.                       *)
(***************************************************************************)
EXTENDS Integers, Sequences, FiniteSets, TLC

VARIABLES params, resolver, s, e_fixed, rs, psks, plog,
          phase, initiator, result, lookups, installed,
          issued, entropy, keys, genInst

vars == <<params, resolver, s, e_fixed, rs, psks, plog,
          phase, initiator, result, lookups, installed,
          issued, entropy, keys, genInst>>

builderFields == <<params, s, e_fixed, rs, psks, plog>>

----------------------------------------------------------------------------
(* Constants of the crate and bounds of the model *)

PSKLEN == 32
MAXDHLEN == 56
NumPskSlots == 10

\* how many times generate_private_key is called on one builder
MaxKeygen == 2

Fill(n, b) == [i \in 1..n |-> b]

None == [some |-> FALSE, v |-> <<>>]
Some(x) == [some |-> TRUE, v |-> x]

----------------------------------------------------------------------------
(* params: NoiseParams, as produced by the protocol-name parser *)

HandshakePattern == {"N", "X", "K", "NN", "NK", "NX", "XN", "XK", "XX",
                     "KN", "KK", "KX", "IN", "IK", "IX"}
DHChoice == {"Curve25519", "Ed448"}
HashChoice == {"SHA256", "SHA512", "Blake2s", "Blake2b"}
CipherChoice == {"ChaChaPoly", "AESGCM"}

NoiseParams(p, d, c, h) == [pattern |-> p, dh |-> d, cipher |-> c, hash |-> h]

ParamsSet ==
    {NoiseParams(p, "Curve25519", "ChaChaPoly", "SHA256") : p \in HandshakePattern}
    \cup {NoiseParams("NN", "Ed448", "AESGCM", "SHA512"),
          NoiseParams("NN", "Curve25519", "AESGCM", "Blake2b"),
          NoiseParams("XX", "Curve25519", "ChaChaPoly", "Blake2s")}

\* HandshakePattern::needs_local_static_key
needs_local_static_key(pattern, init) ==
    IF init
    THEN pattern \notin {"N", "NN", "NK", "NX"}
    ELSE pattern \notin {"NN", "XN", "KN", "IN"}

\* HandshakePattern::need_known_remote_pubkey
need_known_remote_pubkey(pattern, init) ==
    IF init
    THEN pattern \in {"N", "K", "X", "NK", "XK", "KK", "IK"}
    ELSE pattern \in {"K", "KN", "KK", "KX"}

----------------------------------------------------------------------------
(* Primitive instances.  Every instance a resolver constructs is a new     *)
(* box; `n` is the number of instances constructed so far.                 *)

DhPrivLen(choice) == IF choice = "Curve25519" THEN 32 ELSE 56

\* mutant: the resolver hands out one shared instance instead of a new box
NewInstanceShared(kind, prim, n) ==
    [id |-> 0, kind |-> kind, prim |-> prim,
     key |-> IF kind = "dh" THEN Fill(DhPrivLen(prim), 0) ELSE <<>>]

NewInstance(kind, prim, n) ==
    [id |-> n, kind |-> kind, prim |-> prim,
     key |-> IF kind = "dh" THEN Fill(DhPrivLen(prim), 0) ELSE <<>>]

\* Dh::set(privkey)
DhSet(dh, k) == [dh EXCEPT !.key = k]

\* Random::fill_bytes: the n-th output of a source that never repeats
RngFill(n, len) == [i \in 1..len |-> (n + i) % 256]

\* Dh::generate(rng)
DhGenerate(dh, n) == [dh EXCEPT !.key = RngFill(n, Len(dh.key))]

Toggle_on(x) == [on |-> TRUE, v |-> x]
Toggle_off(x) == [on |-> FALSE, v |-> x]

----------------------------------------------------------------------------
(* CryptoResolver *)

AllPrims == {"rng"} \cup DHChoice \cup HashChoice \cup CipherChoice

\* impl CryptoResolver for DefaultResolver
DefaultSupports(kind, choice) ==
    CASE kind = "rng"    -> TRUE
      [] kind = "dh"     -> choice = "Curve25519"
      [] kind = "hash"   -> choice \in {"SHA256", "SHA512", "Blake2s", "Blake2b"}
      [] kind = "cipher" -> choice \in {"ChaChaPoly", "AESGCM"}

DefaultResolver == [default |-> TRUE, supports |-> {}, limited |-> FALSE, cap |-> 0]

\* a custom resolver that knows the primitives in `sup`
CustomResolver(sup) == [default |-> FALSE, supports |-> sup, limited |-> FALSE, cap |-> 0]

\* a custom resolver that knows every primitive but can construct only
\* `c` instances (a fixed pool of hardware contexts)
PooledResolver(c) == [default |-> FALSE, supports |-> AllPrims, limited |-> TRUE, cap |-> c]

ResolverSet ==
    {DefaultResolver,
     CustomResolver(AllPrims \ {"rng"}),
     CustomResolver(AllPrims \ {"ChaChaPoly", "SHA256"}),
     CustomResolver(AllPrims \ {"SHA256", "Curve25519"}),
     CustomResolver(AllPrims)}
    \cup {PooledResolver(c) : c \in 4..6}

\* one lookup: Some(fresh instance) or None
Resolve(r, kind, choice, n) ==
    LET prim == IF kind = "rng" THEN "rng" ELSE choice
        ok == IF r.default
              THEN DefaultSupports(kind, choice)
              ELSE prim \in r.supports /\ (r.limited => n < r.cap)
    IN IF ok THEN Some(NewInstance(kind, prim, n)) ELSE None

ChoiceOf(p, kind) ==
    CASE kind = "rng"    -> "rng"
      [] kind = "dh"     -> p.dh
      [] kind = "hash"   -> p.hash
      [] kind = "cipher" -> p.cipher

\* the InitStage an unresolved lookup is reported with
StageOf(kind) ==
    CASE kind = "rng"    -> "GetRngImpl"
      [] kind = "dh"     -> "GetDhImpl"
      [] kind = "hash"   -> "GetHashImpl"
      [] kind = "cipher" -> "GetCipherImpl"

----------------------------------------------------------------------------
(* Results *)

NoHs == [none |-> TRUE]
NoResult == [tag |-> "none", kind |-> "", stage |-> "", hs |-> NoHs]
Ok(hs) == [tag |-> "Ok", kind |-> "", stage |-> "", hs |-> hs]
Err(kind, stage) == [tag |-> "Err", kind |-> kind, stage |-> stage, hs |-> NoHs]
\* an index or slice out of range: the thread panics
Panic == [tag |-> "Panic", kind |-> "", stage |-> "", hs |-> NoHs]

----------------------------------------------------------------------------
(* NoiseBuilder::build and its parts *)

\* mutant: the hash is looked up before the handshake cipher
BuildLookupsHashFirst ==
    << [name |-> "rng",     kind |-> "rng"],
       [name |-> "hash",    kind |-> "hash"],
       [name |-> "cipher",  kind |-> "cipher"],
       [name |-> "s_dh",    kind |-> "dh"],
       [name |-> "e_dh",    kind |-> "dh"],
       [name |-> "cipher1", kind |-> "cipher"],
       [name |-> "cipher2", kind |-> "cipher"] >>

\* the lookups of build, in the order it makes them
BuildLookups ==
    << [name |-> "rng",     kind |-> "rng"],
       [name |-> "cipher",  kind |-> "cipher"],
       [name |-> "hash",    kind |-> "hash"],
       [name |-> "s_dh",    kind |-> "dh"],
       [name |-> "e_dh",    kind |-> "dh"],
       [name |-> "cipher1", kind |-> "cipher"],
       [name |-> "cipher2", kind |-> "cipher"] >>

\* `resolve_x(..).ok_or(Init(stage))?` for each lookup of `order` from the
\* i-th on: stops at the first None
RECURSIVE ResolveFrom(_, _, _, _, _)
ResolveFrom(r, p, order, i, acc) ==
    IF i > Len(order)
    THEN [ok |-> TRUE, stage |-> "", insts |-> acc.insts, log |-> acc.log, n |-> acc.n]
    ELSE LET kind == order[i].kind
             got == Resolve(r, kind, ChoiceOf(p, kind), acc.n)
             entry == [name |-> order[i].name, kind |-> kind, hit |-> got.some,
                       id |-> IF got.some THEN got.v.id ELSE -1]
         IN IF ~got.some
            THEN [ok |-> FALSE, stage |-> StageOf(kind), insts |-> acc.insts,
                  log |-> Append(acc.log, entry), n |-> acc.n]
            ELSE ResolveFrom(r, p, order, i + 1,
                             [insts |-> Append(acc.insts, got.v),
                              log |-> Append(acc.log, entry),
                              n |-> acc.n + 1])

ResolveAll(r, p, n) ==
    ResolveFrom(r, p, BuildLookups, 1, [insts |-> <<>>, log |-> <<>>, n |-> n])

\* the instance bound to the local variable `name`
Bound(insts, name) ==
    insts[CHOOSE i \in 1..Len(BuildLookups) : BuildLookups[i].name = name]

\* mutant: the remote static key is never asked for
PrereqCheckNoRemote(b, init) ==
    IF ~b.s.some /\ needs_local_static_key(b.params.pattern, init)
    THEN Err("Prereq", "LocalPrivateKey")
    ELSE NoResult

\* mutant: a local static key is asked for whatever the pattern
PrereqCheckAnyPattern(b, init) ==
    IF ~b.s.some
    THEN Err("Prereq", "LocalPrivateKey")
    ELSE IF ~b.rs.some /\ need_known_remote_pubkey(b.params.pattern, init)
    THEN Err("Prereq", "RemotePublicKey")
    ELSE NoResult

\* the two prerequisite checks
PrereqCheck(b, init) ==
    IF ~b.s.some /\ needs_local_static_key(b.params.pattern, init)
    THEN Err("Prereq", "LocalPrivateKey")
    ELSE IF ~b.rs.some /\ need_known_remote_pubkey(b.params.pattern, init)
    THEN Err("Prereq", "RemotePublicKey")
    ELSE NoResult

\* rs_buf[..v.len()].copy_from_slice(&v[..]) into a zeroed buffer
CopyPrefix(buf, v) == [i \in 1..Len(buf) |-> IF i <= Len(v) THEN v[i] ELSE buf[i]]

\* mutant: an injected ephemeral key turns the ephemeral slot on
InstallKeysEphemeralOn(b, s_dh, e_dh) ==
    LET rs_buf == Fill(MAXDHLEN, 0)
    IN [s  |-> IF b.s.some THEN Toggle_on(DhSet(s_dh, b.s.v)) ELSE Toggle_off(s_dh),
        e  |-> IF b.e_fixed.some THEN Toggle_on(DhSet(e_dh, b.e_fixed.v)) ELSE Toggle_off(e_dh),
        panic |-> b.rs.some /\ Len(b.rs.v) > MAXDHLEN,
        rs |-> IF b.rs.some /\ Len(b.rs.v) <= MAXDHLEN
               THEN Toggle_on(CopyPrefix(rs_buf, b.rs.v))
               ELSE Toggle_off(rs_buf),
        re |-> Toggle_off(Fill(MAXDHLEN, 0)),
        sets |-> (IF b.s.some THEN {s_dh.id} ELSE {})
                 \cup (IF b.e_fixed.some THEN {e_dh.id} ELSE {})]

\* the key slots s, e, rs, re
InstallKeys(b, s_dh, e_dh) ==
    LET rs_buf == Fill(MAXDHLEN, 0)
    IN [s  |-> IF b.s.some THEN Toggle_on(DhSet(s_dh, b.s.v)) ELSE Toggle_off(s_dh),
        e  |-> Toggle_off(IF b.e_fixed.some THEN DhSet(e_dh, b.e_fixed.v) ELSE e_dh),
        panic |-> b.rs.some /\ Len(b.rs.v) > MAXDHLEN,
        rs |-> IF b.rs.some /\ Len(b.rs.v) <= MAXDHLEN
               THEN Toggle_on(CopyPrefix(rs_buf, b.rs.v))
               ELSE Toggle_off(rs_buf),
        re |-> Toggle_off(Fill(MAXDHLEN, 0)),
        sets |-> (IF b.s.some THEN {s_dh.id} ELSE {})
                 \cup (IF b.e_fixed.some THEN {e_dh.id} ELSE {})]

\* mutant: the length is not checked, the key is cut or padded to PSKLEN
PskCopyUnchecked(in) ==
    [ok |-> TRUE,
     psks |-> [i \in DOMAIN in |->
                  IF in[i].some THEN Some(CopyPrefix(Fill(PSKLEN, 0), in[i].v)) ELSE None]]

\* the loop over self.psks
PskCopy(in) ==
    [ok |-> \A i \in DOMAIN in : in[i].some => Len(in[i].v) = PSKLEN,
     psks |-> [i \in DOMAIN in |->
                  IF in[i].some /\ Len(in[i].v) = PSKLEN THEN Some(in[i].v) ELSE None]]

\* CipherStates::new
CipherStatesNew(c1, c2) == <<c1, c2>>

\* HandshakeState::new
HandshakeStateNew(rng, cs, hash, hs_s, hs_e, fixed, hs_rs, hs_re, init, p, hs_psks, prologue, css) ==
    Ok([rng |-> rng, cipherstate |-> cs, hash |-> hash,
        s |-> hs_s, e |-> hs_e, fixed_ephemeral |-> fixed,
        rs |-> hs_rs, re |-> hs_re, initiator |-> init, params |-> p,
        psks |-> hs_psks, prologue |-> prologue, cipherstates |-> css])

Outcome(res, log, sets, n) == [result |-> res, lookups |-> log, installed |-> sets, n |-> n]

\* build from `let handshake_cipherstate` on: the lookups `got` all succeeded
Construct(b, init, got) ==
    LET cipherstates == CipherStatesNew(Bound(got.insts, "cipher1"), Bound(got.insts, "cipher2"))
        slots == InstallKeys(b, Bound(got.insts, "s_dh"), Bound(got.insts, "e_dh"))
    IN IF slots.panic THEN Outcome(Panic, got.log, slots.sets, got.n) ELSE
    LET copied == PskCopy(b.psks)
    IN IF ~copied.ok
       THEN Outcome(Err("Init", "ValidatePskLengths"), got.log, slots.sets, got.n)
       ELSE Outcome(HandshakeStateNew(Bound(got.insts, "rng"), Bound(got.insts, "cipher"),
                                      Bound(got.insts, "hash"),
                                      slots.s, slots.e, b.e_fixed.some, slots.rs, slots.re,
                                      init, b.params, copied.psks,
                                      IF b.plog.some THEN b.plog.v ELSE <<>>,
                                      cipherstates),
                    got.log, slots.sets, got.n)

\* mutant: the PSK lengths are validated before anything else
BuildPskFirst(b, init, n) ==
    IF ~PskCopy(b.psks).ok
    THEN Outcome(Err("Init", "ValidatePskLengths"), <<>>, {}, n) ELSE
    LET pre == PrereqCheck(b, init)
    IN IF pre.tag = "Err" THEN Outcome(pre, <<>>, {}, n) ELSE
    LET got == ResolveAll(b.resolver, b.params, n)
    IN IF ~got.ok THEN Outcome(Err("Init", got.stage), got.log, {}, got.n)
       ELSE Construct(b, init, got)

\* mutant: the primitives are resolved before the prerequisites are checked
BuildResolveFirst(b, init, n) ==
    LET got == ResolveAll(b.resolver, b.params, n)
    IN IF ~got.ok THEN Outcome(Err("Init", got.stage), got.log, {}, got.n) ELSE
    LET pre == PrereqCheck(b, init)
    IN IF pre.tag = "Err" THEN Outcome(pre, got.log, {}, got.n)
       ELSE Construct(b, init, got)

\* fn build(self, initiator: bool) -> Result<Session>
Build(b, init, n) ==
    LET pre == PrereqCheck(b, init)
    IN IF pre.tag = "Err" THEN Outcome(pre, <<>>, {}, n) ELSE
    LET got == ResolveAll(b.resolver, b.params, n)
    IN IF ~got.ok THEN Outcome(Err("Init", got.stage), got.log, {}, got.n)
       ELSE Construct(b, init, got)

\* mutant: the key is read back without dh.generate having been called
GenPrivKeyNoGenerate(b, n, ent) ==
    LET rng == Resolve(b.resolver, "rng", "rng", n)
    IN IF ~rng.some
       THEN [ret |-> [ok |-> FALSE, key |-> <<>>, stage |-> "GetRngImpl"],
             n |-> n, ent |-> ent, insts |-> {}]
       ELSE
    LET dh == Resolve(b.resolver, "dh", b.params.dh, n + 1)
    IN IF ~dh.some
       THEN [ret |-> [ok |-> FALSE, key |-> <<>>, stage |-> "GetDhImpl"],
             n |-> n + 1, ent |-> ent, insts |-> {rng.v.id}]
       ELSE
    LET private == CopyPrefix(Fill(Len(dh.v.key), 0), dh.v.key)
    IN [ret |-> [ok |-> TRUE, key |-> private, stage |-> ""],
        n |-> n + 2, ent |-> ent, insts |-> {rng.v.id, dh.v.id}]

\* pub fn generate_private_key(&self) -> Result<Vec<u8>>
GenPrivKey(b, n, ent) ==
    LET rng == Resolve(b.resolver, "rng", "rng", n)
    IN IF ~rng.some
       THEN [ret |-> [ok |-> FALSE, key |-> <<>>, stage |-> "GetRngImpl"],
             n |-> n, ent |-> ent, insts |-> {}]
       ELSE
    LET dh == Resolve(b.resolver, "dh", b.params.dh, n + 1)
    IN IF ~dh.some
       THEN [ret |-> [ok |-> FALSE, key |-> <<>>, stage |-> "GetDhImpl"],
             n |-> n + 1, ent |-> ent, insts |-> {rng.v.id}]
       ELSE
    LET generated == DhGenerate(dh.v, ent)
        private == CopyPrefix(Fill(Len(dh.v.key), 0), generated.key)
    IN [ret |-> [ok |-> TRUE, key |-> private, stage |-> ""],
        n |-> n + 2, ent |-> ent + 1, insts |-> {rng.v.id, dh.v.id}]

----------------------------------------------------------------------------
(* The state machine.  phase: "builder" while the builder is configured,  *)
(* "built" once build has consumed it, "aborted" once psk has panicked.    *)

Builder == [params |-> params, resolver |-> resolver, s |-> s, e_fixed |-> e_fixed,
            rs |-> rs, psks |-> psks, plog |-> plog]

\* inputs of the configuration calls
PskLocations == {0, 9, 10}
PskInputs == {Fill(PSKLEN, 7), Fill(PSKLEN - 1, 7), Fill(PSKLEN + 1, 7)}
PrivateKeyInputs == {Fill(32, 1)}
EphemeralInputs == {Fill(32, 2)}
PublicKeyInputs == {Fill(32, 3), Fill(MAXDHLEN + 1, 3)}
PrologueInputs == {<<2, 2, 2, 2, 2, 2, 2, 2>>}

\* NoiseBuilder::new / with_resolver
Init ==
    /\ params \in ParamsSet
    /\ resolver \in ResolverSet
    /\ s = None
    /\ e_fixed = None
    /\ rs = None
    /\ plog = None
    /\ psks = [i \in 0..(NumPskSlots - 1) |-> None]
    /\ phase = "builder"
    /\ initiator = FALSE
    /\ result = NoResult
    /\ lookups = <<>>
    /\ installed = {}
    /\ issued = 0
    /\ entropy = 0
    /\ keys = <<>>
    /\ genInst = {}

\* pub fn psk(mut self, location: u8, key)
Psk(location, key) ==
    /\ phase = "builder"
    /\ IF location \in DOMAIN psks
       THEN /\ psks' = [psks EXCEPT ![location] = Some(key)]
            /\ UNCHANGED <<phase, result>>
       ELSE /\ phase' = "aborted"
            /\ result' = Panic
            /\ UNCHANGED psks
    /\ UNCHANGED <<params, resolver, s, e_fixed, rs, plog, initiator,
                   lookups, installed, issued, entropy, keys, genInst>>

LocalPrivateKey(key) ==
    /\ phase = "builder"
    /\ s' = Some(key)
    /\ UNCHANGED <<params, resolver, e_fixed, rs, psks, plog, phase, initiator, result,
                   lookups, installed, issued, entropy, keys, genInst>>

FixedEphemeralKey(key) ==
    /\ phase = "builder"
    /\ e_fixed' = Some(key)
    /\ UNCHANGED <<params, resolver, s, rs, psks, plog, phase, initiator, result,
                   lookups, installed, issued, entropy, keys, genInst>>

Prologue(key) ==
    /\ phase = "builder"
    /\ plog' = Some(key)
    /\ UNCHANGED <<params, resolver, s, e_fixed, rs, psks, phase, initiator, result,
                   lookups, installed, issued, entropy, keys, genInst>>

RemotePublicKey(pub_key) ==
    /\ phase = "builder"
    /\ rs' = Some(pub_key)
    /\ UNCHANGED <<params, resolver, s, e_fixed, plog, psks, phase, initiator, result,
                   lookups, installed, issued, entropy, keys, genInst>>

GeneratePrivateKey ==
    /\ phase = "builder"
    /\ Len(keys) < MaxKeygen
    /\ LET g == GenPrivKey(Builder, issued, entropy)
       IN /\ keys' = Append(keys, g.ret)
          /\ issued' = g.n
          /\ entropy' = g.ent
          /\ genInst' = genInst \cup g.insts
    /\ UNCHANGED <<params, resolver, s, e_fixed, rs, psks, plog, phase, initiator,
                   result, lookups, installed>>

DoBuild(init) ==
    /\ phase = "builder"
    /\ LET o == Build(Builder, init, issued)
       IN /\ result' = o.result
          /\ lookups' = o.lookups
          /\ installed' = o.installed
          /\ issued' = o.n
          /\ phase' = "built"
    /\ initiator' = init
    /\ UNCHANGED <<params, resolver, s, e_fixed, rs, psks, plog, entropy, keys, genInst>>

BuildInitiator == DoBuild(TRUE)
BuildResponder == DoBuild(FALSE)

Next ==
    \/ \E l \in PskLocations, k \in PskInputs : Psk(l, k)
    \/ \E k \in PrivateKeyInputs : LocalPrivateKey(k)
    \/ \E k \in EphemeralInputs : FixedEphemeralKey(k)
    \/ \E k \in PrologueInputs : Prologue(k)
    \/ \E k \in PublicKeyInputs : RemotePublicKey(k)
    \/ GeneratePrivateKey
    \/ BuildInitiator
    \/ BuildResponder

Spec == Init /\ [][Next]_vars

----------------------------------------------------------------------------
(* Properties of build and generate_private_key *)

Built == phase = "built"
Succeeded == Built /\ result.tag = "Ok"

MissingLocal == ~s.some /\ needs_local_static_key(params.pattern, initiator)
MissingRemote == ~rs.some /\ need_known_remote_pubkey(params.pattern, initiator)

BadPskSlots == {i \in DOMAIN psks : psks[i].some /\ Len(psks[i].v) # PSKLEN}
RemoteTooLong == rs.some /\ Len(rs.v) > MAXDHLEN

LookupOrder == <<"rng", "cipher", "hash", "s_dh", "e_dh", "cipher1", "cipher2">>
Misses == {i \in DOMAIN lookups : ~lookups[i].hit}
AllResolved == Len(lookups) = Len(LookupOrder) /\ Misses = {}
GetImplStages == {"GetRngImpl", "GetCipherImpl", "GetHashImpl", "GetDhImpl"}

StageNaming(name) ==
    CASE name = "rng" -> "GetRngImpl"
      [] name \in {"cipher", "cipher1", "cipher2"} -> "GetCipherImpl"
      [] name = "hash" -> "GetHashImpl"
      [] name \in {"s_dh", "e_dh"} -> "GetDhImpl"

\* C1 (as stated): a build that lacks a required local static key ends in
\* Prereq(LocalPrivateKey), and a build that lacks a remote static key it must
\* know in advance ends in Prereq(RemotePublicKey).
C1_PrereqErrorPerMissingKey ==
    Built =>
        /\ MissingLocal => result = Err("Prereq", "LocalPrivateKey")
        /\ MissingRemote => result = Err("Prereq", "RemotePublicKey")

\* C1 (amended): a missing required local static key gives
\* Prereq(LocalPrivateKey); a missing required remote static key gives
\* Prereq(RemotePublicKey) when the local check passed; no Session is returned
\* in either case, and a Prereq error is reported only for a key that is
\* indeed required and absent.
C1_PrereqErrorFirstMissingKey ==
    Built =>
        /\ MissingLocal => result = Err("Prereq", "LocalPrivateKey")
        /\ (~MissingLocal /\ MissingRemote) => result = Err("Prereq", "RemotePublicKey")
        /\ (MissingLocal \/ MissingRemote) => result.tag = "Err"
        /\ result.kind = "Prereq" =>
              \/ result.stage = "LocalPrivateKey" /\ MissingLocal
              \/ result.stage = "RemotePublicKey" /\ MissingRemote /\ ~MissingLocal

C1_Witness ==
    /\ Built /\ initiator /\ params.pattern = "NK"
    /\ s.some /\ ~rs.some
    /\ result = Err("Prereq", "RemotePublicKey")

\* C2: with pattern NN, no wrong-length PSK, no remote public key and every
\* lookup answered, build returns a Session for either role, whether or not
\* a local private key was supplied.
C2_NNBuilds ==
    (Built /\ params.pattern = "NN" /\ ~rs.some /\ BadPskSlots = {} /\ Misses = {})
        => result.tag = "Ok"

C2_Witness ==
    /\ Succeeded /\ params.pattern = "NN" /\ ~initiator
    /\ ~s.some /\ ~rs.some /\ AllResolved

\* C3 (as stated): every build with a wrong-length PSK fails with a validation
\* error whose kind is none of initialization, prerequisite and parse.
C3_ValidationKind ==
    (Built /\ BadPskSlots # {}) =>
        /\ result.tag = "Err"
        /\ result.kind \notin {"Init", "Prereq", "Parse"}

\* C3 (amended): a build with a wrong-length PSK never returns a Session; when
\* the prerequisite checks pass, all seven lookups succeed and the remote key
\* fits its buffer, it fails with Init(ValidatePskLengths), an error of the
\* initialization kind, and that error is reported for nothing else; a PSK of
\* exactly PSKLEN bytes reaches the handshake state unchanged in the same slot
\* and absent slots stay absent.
C3_PskLengthChecked ==
    Built =>
        /\ BadPskSlots # {} => result.tag # "Ok"
        /\ (BadPskSlots # {} /\ ~MissingLocal /\ ~MissingRemote /\ AllResolved /\ ~RemoteTooLong)
              => result = Err("Init", "ValidatePskLengths")
        /\ result.stage = "ValidatePskLengths" => (result.kind = "Init" /\ BadPskSlots # {})
        /\ result.tag = "Ok" =>
              /\ DOMAIN result.hs.psks = 0..(NumPskSlots - 1)
              /\ \A i \in DOMAIN psks :
                    /\ result.hs.psks[i] = psks[i]
                    /\ psks[i].some => Len(result.hs.psks[i].v) = PSKLEN

C3_Witness ==
    /\ Built /\ psks[9].some /\ 9 \in BadPskSlots
    /\ psks[0].some /\ 0 \notin BadPskSlots
    /\ result = Err("Init", "ValidatePskLengths")

\* C4 (as stated): PSK lengths are validated first, so a build with a
\* wrong-length PSK ends in the PSK-length error whatever else is missing, and
\* no lookup has been made by then.
C4_PskValidatedFirst ==
    (Built /\ BadPskSlots # {}) =>
        /\ result.tag = "Err" /\ result.stage = "ValidatePskLengths"
        /\ lookups = <<>>

\* C4 (amended): build validates the prerequisites first, then resolves the
\* primitives, then installs the keys, then validates the PSK lengths: with a
\* wrong-length PSK, a missing required key still gives the Prereq error with
\* no lookup made, an unresolved primitive still gives its Init(Get..Impl)
\* error, and the PSK-length error is reported only after all seven lookups
\* have succeeded.
C4_PskValidatedLast ==
    (Built /\ BadPskSlots # {}) =>
        /\ (MissingLocal \/ MissingRemote) => (result.kind = "Prereq" /\ lookups = <<>>)
        /\ (~MissingLocal /\ ~MissingRemote /\ Misses # {})
              => (result.kind = "Init" /\ result.stage \in GetImplStages)
        /\ result.stage = "ValidatePskLengths"
              => (~MissingLocal /\ ~MissingRemote /\ AllResolved)

C4_Witness ==
    /\ Built /\ BadPskSlots # {} /\ MissingLocal
    /\ result = Err("Prereq", "LocalPrivateKey")

\* C5: a build that ends in a Prerequisite error has made no resolver lookup
\* and has installed no key into a DH instance.
C5_PrereqBeforeCrypto ==
    (Built /\ result.kind = "Prereq") => (lookups = <<>> /\ installed = {})

C5_Witness ==
    /\ Built /\ result.kind = "Prereq" /\ e_fixed.some
    /\ ~resolver.default /\ "rng" \notin resolver.supports
    /\ lookups = <<>> /\ installed = {}

\* the primitives build needs that an unpooled resolver does not know, as
\* positions of the lookup order
Unsupported ==
    {i \in DOMAIN LookupOrder :
        LET kind == BuildLookups[CHOOSE j \in DOMAIN BuildLookups :
                                    BuildLookups[j].name = LookupOrder[i]].kind
            prim == ChoiceOf(params, kind)
        IN IF resolver.default THEN ~DefaultSupports(kind, prim)
                               ELSE prim \notin resolver.supports}

\* C6: once the prerequisite checks have passed, the lookups are made in the
\* order RNG, handshake cipher, hash, static DH, ephemeral DH, transport
\* cipher 1, transport cipher 2; the first miss ends them, and build then
\* fails with the Init error whose stage names the kind of that primitive; a
\* resolver that lacks a needed primitive always leads to such a miss.
C6_FirstMissNamed ==
    (Built /\ ~MissingLocal /\ ~MissingRemote) =>
        /\ Len(lookups) \in 1..Len(LookupOrder)
        /\ \A i \in DOMAIN lookups : lookups[i].name = LookupOrder[i]
        /\ \A i \in Misses :
              /\ i = Len(lookups)
              /\ result = Err("Init", StageNaming(LookupOrder[i]))
        /\ Misses = {} => (Len(lookups) = Len(LookupOrder) /\ result.stage \notin GetImplStages)
        /\ Unsupported # {} =>
              /\ Misses # {}
              /\ \A i \in Unsupported : Len(lookups) <= i

C6_Witness ==
    /\ Built /\ ~resolver.default /\ ~resolver.limited
    /\ params.cipher \notin resolver.supports /\ params.hash \notin resolver.supports
    /\ Len(lookups) = 2 /\ lookups[1].hit /\ ~lookups[2].hit
    /\ result = Err("Init", "GetCipherImpl")

SessionIds ==
    LET h == result.hs
    IN <<h.rng.id, h.cipherstate.id, h.hash.id, h.s.v.id, h.e.v.id,
         h.cipherstates[1].id, h.cipherstates[2].id>>

\* C7: in a successful build the RNG, handshake cipher, hash, static DH,
\* ephemeral DH and the two transport ciphers are seven different instances,
\* each the answer of its own lookup (three cipher and two DH lookups among
\* them), and none of them is an instance a generate_private_key call used;
\* every generate_private_key call resolved instances of its own.
C7_NoInstanceShared ==
    /\ Succeeded =>
          /\ \A i, j \in DOMAIN SessionIds : i # j => SessionIds[i] # SessionIds[j]
          /\ AllResolved
          /\ \A i \in DOMAIN SessionIds : SessionIds[i] = lookups[i].id
          /\ Cardinality({i \in DOMAIN lookups : lookups[i].kind = "cipher"}) = 3
          /\ Cardinality({i \in DOMAIN lookups : lookups[i].kind = "dh"}) = 2
          /\ \A i \in DOMAIN SessionIds : SessionIds[i] \notin genInst
    /\ Cardinality(genInst) =
          2 * Cardinality({k \in DOMAIN keys : keys[k].ok})
          + Cardinality({k \in DOMAIN keys : keys[k].stage = "GetDhImpl"})

C7_Witness ==
    /\ Succeeded /\ s.some /\ e_fixed.some
    /\ Len(keys) = 2 /\ keys[1].ok /\ keys[2].ok
    /\ Cardinality(genInst) = 4

\* C8: a generate_private_key call leaves params, s, e_fixed, rs, psks and the
\* prologue as they were and the builder still usable, resolves instances no
\* earlier call used, and the key it returns differs from every key an
\* earlier call on the same builder returned.
C8_KeygenFresh ==
    [][Len(keys') > Len(keys) =>
          /\ UNCHANGED builderFields
          /\ phase' = "builder"
          /\ (genInst' \ genInst) \cap genInst = {}
          /\ LET new == keys'[Len(keys')]
             IN new.ok =>
                   /\ genInst' # genInst
                   /\ \A k \in DOMAIN keys : keys[k].ok => keys[k].key # new.key]_vars

C8_Witness ==
    /\ Len(keys) = 2 /\ keys[1].ok /\ keys[2].ok
    /\ keys[1].key # keys[2].key
    /\ phase = "builder"

\* C9: after a successful build the local static slot is on, with the supplied
\* private key, exactly if local_private_key was called; the remote static
\* slot is on, with the supplied public key at the start of a zeroed buffer,
\* exactly if remote_public_key was called; the remote and the local ephemeral
\* slot are off; the fixed-ephemeral flag tells whether a fixed ephemeral key
\* was injected, and that key is then installed in the ephemeral DH instance.
C9_SlotsAsSupplied ==
    Succeeded =>
        LET h == result.hs
        IN /\ h.s.on = s.some
           /\ s.some => h.s.v.key = s.v
           /\ h.rs.on = rs.some
           /\ Len(h.rs.v) = MAXDHLEN
           /\ rs.some => /\ Len(rs.v) <= MAXDHLEN
                         /\ \A i \in 1..MAXDHLEN :
                               h.rs.v[i] = IF i <= Len(rs.v) THEN rs.v[i] ELSE 0
           /\ ~rs.some => h.rs.v = Fill(MAXDHLEN, 0)
           /\ ~h.re.on
           /\ ~h.e.on
           /\ h.fixed_ephemeral = e_fixed.some
           /\ e_fixed.some => (h.e.v.key = e_fixed.v /\ h.e.v.id \in installed)
           /\ ~e_fixed.some => h.e.v.id \notin installed

C9_Witness ==
    /\ Succeeded /\ s.some /\ rs.some /\ e_fixed.some
    /\ result.hs.s.on /\ result.hs.rs.on /\ ~result.hs.e.on
    /\ result.hs.fixed_ephemeral

\* C10: whatever configuration calls are made and whether or not build is
\* called, the program ends with a Session or a typed error value and never
\* aborts, also for a psk location of 10 or more and for a remote public key
\* longer than MAXDHLEN.
C10_NeverAborts ==
    /\ phase # "aborted"
    /\ result.tag \in {"none", "Ok", "Err"}

====
